---- MODULE Spec2Model ----
(***************************************************************************)
(* Prusa Connect SDK Printer: the dispatch loop of Printer.loop, command   *)
(* parsing (Printer.parse_command), registration (Printer.register and the *)
(* Register poll item) and the health flags, as a state machine.           *)
(*                                                                         *)
(* The network thread is a process with a position (pc): it is either not  *)
(* started, at the top of the while loop, inside a command handler (user   *)
(* code that blocks the loop), or returned.  Producer threads (event_cb,   *)
(* telemetry, register, the identity setters, set_connection, stop_loop)   *)
(* interleave with it.  HTTP exchanges are atomic with the iteration that  *)
(* makes them; the server's answer is a nondeterministic input.            *)
(*                                                                         *)
(* prusa/connect/printer/command.py (class Command) is not part of the     *)
(* sources at hand: check_state, accept and finish follow the              *)
(* specification's section 4.2.                                            *)
(***************************************************************************)
EXTENDS Integers, Sequences, FiniteSets, TLC

\* ---------------------------------------------------------------- bounds
MaxQueue == 1       \* events and telemetry samples the producers keep queued
MaxTicks == 1       \* how many times the clock jumps ahead by CODE_TIMEOUT
MaxSleeps == 1      \* how many sleep(1) pauses are followed

\* ------------------------------------------------------ program constants
CODE_TIMEOUT == 1800

None == "<None>"
NoId == 0           \* command_id=None of an Event
BadId == -1         \* a Command-Id header that is missing or no integer
CommandIds == {1, 2}     \* values of a Command-Id header
Ids == {1}               \* the Command-Id the server sends, time and again

NOT_INITIALISED_MSG == "Printer has not been initialized properly"

\* values of the model's inputs
SnValues == {"SN"}
FingerprintValues == {"FP"}
TypeValues == {"I3"}
TokenHeaders == {None, "", "t1"}      \* None: the header is absent
Tokens == {"t1"}
Codes == {"c1"}
\* the statuses the server answers with, per exchange
TelemetryStatuses == {200, 204, 400, 401}
EventStatuses == {200, 204, 400, 401}
PollStatuses == {200, 202, 400, 401}        \* GET /p/register
RegisterStatuses == {200, 401, 500}         \* POST /p/register
ContentTypes == {None, "application/json", "text/x.gcode", "text/plain"}
CommandNames == {"SEND_INFO", "SEND_FILE_INFO", "GCODE", ""}
Bodies == CommandNames \cup {"<invalid json>", "<json list>"}

VARIABLES
    server,         \* Printer.server
    token,          \* Printer.token
    sn,             \* Printer.__sn
    fingerprint,    \* Printer.__fingerprint
    type,           \* Printer.__type
    queue,          \* Printer.queue
    errors,         \* the health flags errors.HTTP/API/TOKEN/INTERNET (.ok)
    command,        \* Printer.command: the command slot
    running_loop,   \* Printer.__running_loop
    pc,             \* position of the thread that runs loop()
    now,            \* time()
    download,       \* Printer.download_mgr: the job of its single slot
    reads,          \* history: what telemetry() last read of the current job
    clock_adjusted, \* Printer.clock_watcher: a jump of the clock is detected
    last,           \* history: what the last step of loop()/register() did
    invoked,        \* history: the command ids a handler was invoked for,
                    \* "once" and "again"
    stop_called     \* history: stop_loop() has been called

vars == <<server, token, sn, fingerprint, type, queue, errors, command,
          running_loop, pc, now, download, reads, clock_adjusted, last,
          invoked, stop_called>>

Truthy(v) == v \notin {None, ""}

\* ----------------------------------------------------------- queue items
EventItem(kind, cid, reason) ==
    [type |-> "Event", event |-> kind, command_id |-> cid, reason |-> reason,
     code |-> "", timeout |-> 0, kwargs |-> <<>>]

\* Telemetry(state, timestamp, **kwargs): kwargs holds download_progress,
\* download_time_remaining and download_bytes, or nothing
TelemetrySample(kwargs) ==
    [type |-> "Telemetry", event |-> "", command_id |-> NoId, reason |-> "",
     code |-> "", timeout |-> 0, kwargs |-> kwargs]

TelemetryItem == TelemetrySample(<<>>)

Register(code) ==
    [type |-> "Register", event |-> "", command_id |-> NoId, reason |-> "",
     code |-> code, timeout |-> now + CODE_TIMEOUT, kwargs |-> <<>>]

\* ---------------------------------------------------------- health flags
Flags == [HTTP : BOOLEAN, API : BOOLEAN, TOKEN : BOOLEAN, INTERNET : BOOLEAN]

\* is_initialised with "is not None" for the three fields
is_initialised_not_none == sn # None /\ fingerprint # None /\ type # None

\* is_initialised that takes every printer for initialised
is_initialised_unchecked == TRUE

\* ------------------------------------------------------------- identity
is_initialised == Truthy(sn) /\ Truthy(fingerprint) /\ type # None

\* the flag effect of a call of is_initialised()
is_initialised_errors(e) ==
    IF is_initialised THEN e ELSE [e EXCEPT !.API = FALSE]

\* a put that places the item first
put_first(q, item) == <<item>> \o q

\* queue.put(item): lines 274, 296, 559, 625
put(q, item) == Append(q, item)

\* event_cb that puts the event on an emptied queue
event_cb_clearing(st, ev) ==
    IF ~Truthy(token) THEN st
    ELSE [st EXCEPT !.queue = <<ev>>,
                    !.errors = is_initialised_errors(@)]

\* event_cb with the token test inverted
event_cb_inverted(st, ev) ==
    IF Truthy(token) THEN st
    ELSE [st EXCEPT !.queue = Append(@, ev),
                    !.errors = is_initialised_errors(@)]

\* st is the part of the state a call chain updates: queue, errors, command,
\* and invoke (a handler is to be run)
event_cb(st, ev) ==
    IF ~Truthy(token) THEN st
    ELSE [st EXCEPT !.queue = put(@, ev),
                    !.errors = is_initialised_errors(@)]

\* ------------------------------------------- the command slot (Command)
NoCommand == [state |-> None, command_id |-> NoId, command |-> ""]

\* Printer.__init__'s set_handler calls
handlers ==
    {"SEND_INFO", "SEND_FILE_INFO", "CREATE_DIRECTORY", "DELETE_FILE",
     "DELETE_DIRECTORY", "START_DOWNLOAD", "STOP_DOWNLOAD",
     "SEND_DOWNLOAD_INFO", "SET_PRINTER_PREPARED"}

\* get_info with the event kind of a finished command
HandlerResults_finished(name) ==
    {[ok |-> TRUE, event |-> "FINISHED", reason |-> ""]}

\* what a handler can return: a result bag (its event kind) or a failure
HandlerResults(name) ==
    IF name = "SEND_INFO" THEN {[ok |-> TRUE, event |-> "INFO", reason |-> ""]}
    ELSE {[ok |-> TRUE, event |-> "FILE_INFO", reason |-> ""],
          [ok |-> FALSE, event |-> "", reason |-> "ValueError"]}

\* check_state that does not look at the slot
check_state_any(cmd, id) == TRUE

\* true if no command is in flight or id is the in-flight id
check_state(cmd, id) == cmd.state = None \/ cmd.command_id = id

\* REJECTED with the reason, for the command of the slot; the slot is freed
reject(st, reason) ==
    [event_cb(st, EventItem("REJECTED", st.command.command_id, reason))
        EXCEPT !.command = NoCommand]

\* finish that frees the slot on success only
finish_success_only(st, result) ==
    IF result.ok
    THEN [event_cb(st, EventItem(result.event, st.command.command_id, ""))
            EXCEPT !.command = NoCommand]
    ELSE event_cb(st, EventItem("REJECTED", st.command.command_id,
                                result.reason))

\* the outcome of the handler becomes an event with the command's id; the
\* slot is freed
finish(st, result) ==
    IF result.ok
    THEN [event_cb(st, EventItem(result.event, st.command.command_id, ""))
            EXCEPT !.command = NoCommand]
    ELSE reject(st, result.reason)

\* accept up to the call of the handler: a re-delivery of the in-flight id
\* is a no-op; otherwise the command is recorded in flight and ACCEPTED is
\* reported; without a handler for the name the command is rejected at once
accept(st, id, name) ==
    IF st.command.state # None /\ st.command.command_id = id THEN st
    ELSE LET st1 == event_cb(
                 [st EXCEPT !.command = [state |-> "ACCEPTED",
                                         command_id |-> id,
                                         command |-> name]],
                 EventItem("ACCEPTED", id, ""))
         IN  IF name \in handlers THEN [st1 EXCEPT !.invoke = TRUE]
             ELSE reject(st1, "no handler")

\* ------------------------------------------------------ parse_command
\* line 487 with every status taken for a command
is_command_any(res) == TRUE

\* line 487: the answer carries a command
is_command(res) == res.status_code = 200

\* lines 489-491 without the except clause
valid_command_id_any(res) == TRUE

\* lines 489-491: int(res.headers.get("Command-Id")) does not raise
valid_command_id(res) == res.command_id # BadId

\* res: [status_code, command_id, content_type, body]
parse_command(st, res) ==
    IF is_command(res) THEN
        IF ~valid_command_id(res)
        THEN event_cb(st, EventItem("REJECTED", NoId,
                                    "Invalid Command-Id header"))
        ELSE
        LET st1 == [st EXCEPT !.errors = is_initialised_errors(@)]
            rejected(reason) ==
                event_cb(st1, EventItem("REJECTED", res.command_id, reason))
        IN  IF ~is_initialised THEN rejected(NOT_INITIALISED_MSG)
            ELSE IF res.content_type = None
            THEN rejected("'NoneType' object has no attribute 'startswith'")
            ELSE IF res.content_type = "application/json" THEN
                IF res.body = "<invalid json>" THEN rejected("JSONDecodeError")
                ELSE IF check_state(st1.command, res.command_id) THEN
                    IF res.body = "<json list>"
                    THEN rejected("'list' object has no attribute 'get'")
                    ELSE accept(st1, res.command_id, res.body)
                ELSE st1
            ELSE IF res.content_type = "text/x.gcode" THEN
                IF check_state(st1.command, res.command_id)
                THEN accept(st1, res.command_id, "GCODE")
                ELSE st1
            ELSE rejected("Invalid command content type")
    ELSE st

\* ------------------------------------------------------------- loop()
\* lines 632-637 without the test for 401
update_flags_no_401(e, status_code) ==
    IF status_code >= 400 THEN [e EXCEPT !.API = FALSE]
    ELSE [e EXCEPT !.API = TRUE]

\* lines 632-637 with > in place of >=
update_flags_above_400(e, status_code) ==
    LET e1 == [e EXCEPT !.API = TRUE]
    IN  IF status_code > 400
        THEN [e1 EXCEPT !.API = FALSE,
                        !.TOKEN = IF status_code = 401 THEN FALSE ELSE @]
        ELSE e1

\* lines 632-637: the flags after an exchange
update_flags(e, status_code) ==
    LET e1 == [e EXCEPT !.API = TRUE]
    IN  IF status_code >= 400
        THEN [e1 EXCEPT !.API = FALSE,
                        !.TOKEN = IF status_code = 401 THEN FALSE ELSE @]
        ELSE e1

\* the except clauses with the flags of lines 641 and 644 exchanged
on_exception_exchanged(e, exc) ==
    IF exc = "ConnectionError" THEN [e EXCEPT !.INTERNET = FALSE]
    ELSE [e EXCEPT !.HTTP = FALSE]

\* the except clauses of the loop
on_exception(e, exc) ==
    IF exc = "ConnectionError" THEN [e EXCEPT !.HTTP = FALSE]
    ELSE [e EXCEPT !.INTERNET = FALSE]

\* an except clause that leaves the loop
after_exception_leaves(exc) == "done"

\* where the loop thread goes after an except clause: back to the while
after_exception(exc) == "loop"

Exceptions == {"ConnectionError", "RequestException"}

NoResponse(status) ==
    [status_code |-> status, command_id |-> BadId, content_type |-> None,
     body |-> ""]

\* history of a step: the operation, the type and deadline of the item it
\* took from the queue, the response, the exception raised, whether an HTTP
\* request was made, and the argument register_handler was called with
NoStep == [op |-> "none", item |-> "", timeout |-> 0, res |-> NoResponse(0),
           exc |-> "none", http |-> FALSE, arg |-> None, marker |-> FALSE]

\* make_headers, lines 229-232: the Clock-Adjusted header of the request and
\* the watcher after reset()
make_headers(adjusted) ==
    [marker |-> adjusted, adjusted |-> IF adjusted THEN FALSE ELSE adjusted]

\* the step made a request: conn.post or conn.get was called with the
\* headers of make_headers (lines 553-554, 576-577, 598-599, 608-609)
Requests(op, http) == http /\ op # "handled"

Step(op, item, res, exc, http) ==
    [op |-> op, item |-> item.type, timeout |-> item.timeout, res |-> res,
     exc |-> exc, http |-> http, arg |-> None,
     marker |-> Requests(op, http) /\ make_headers(clock_adjusted).marker]

\* the watcher after a step: make_headers is called once for each request
MakeHeaders ==
    clock_adjusted' = IF Requests(last'.op, last'.http)
                      THEN make_headers(clock_adjusted).adjusted
                      ELSE clock_adjusted
NoItem == [type |-> "", timeout |-> 0]
LoopOps == {"empty", "noserver", "notoken", "failed", "accept", "telemetry",
            "handled", "event", "register"}
\* ------------------------------------- the download manager (DownloadMgr)
\* None where a number is expected: an unknown total, an undefined result
Undefined == -1
\* the bytes of the file a download fetches
BodySize == 2
\* the total_bytes a server announces for a download, if it announces one
Totals == {Undefined, BodySize}
\* the args of a START_DOWNLOAD command: url, destination, select, print
DownloadArgs ==
    {<<>>, <<"http://a/f.gcode", "/sd/f.gcode", FALSE, FALSE>>,
     <<"http://b/g.gcode", "/sd/g.gcode", TRUE, TRUE>>}

\* the empty slot
NoJob ==
    [state |-> None, url |-> "", destination |-> "", to_select |-> FALSE,
     to_print |-> FALSE, downloaded |-> 0, total |-> Undefined,
     start_time |-> 0]

\* a job that begins streaming at time t
DownloadJob(args, total, t) ==
    [state |-> "IN_PROGRESS", url |-> args[1], destination |-> args[2],
     to_select |-> args[3], to_print |-> args[4], downloaded |-> 0,
     total |-> total, start_time |-> t]

\* DownloadMgr.current is set: a job holds the slot
has_current(d) == d.state = "IN_PROGRESS"

\* start that takes the slot whatever is in it
start_replacing(d, args, total, t) ==
    [job |-> DownloadJob(args, total, t), exc |-> "none"]

\* DownloadMgr.start: fails while a job is IN_PROGRESS
start(d, args, total, t) ==
    IF d.state = "IN_PROGRESS" THEN [job |-> d, exc |-> "failed"]
    ELSE [job |-> DownloadJob(args, total, t), exc |-> "none"]

\* DownloadMgr.stop
stop(d) == IF has_current(d) THEN [d EXCEPT !.state = "STOPPED"] ELSE d

\* progress that reports the part still to come
progress_remaining(d) ==
    IF d.total = Undefined THEN Undefined
    ELSE ((d.total - d.downloaded) * 100) \div d.total

\* progress of a job in hundredths
progress(d) ==
    IF d.total = Undefined THEN Undefined
    ELSE (d.downloaded * 100) \div d.total

\* remaining bytes by the average throughput since start_time
time_remaining(d, t) ==
    IF d.total = Undefined \/ d.downloaded = 0 THEN Undefined
    ELSE ((d.total - d.downloaded) * (t - d.start_time)) \div d.downloaded

\* DownloadMgr.info: what a download-info query reads of the current job
info(d, t) ==
    IF has_current(d) THEN <<progress(d), time_remaining(d, t)>> ELSE <<>>

\* what telemetry() reads of the current job: lines 286-290
download_kwargs(d, t) ==
    IF has_current(d)
    THEN <<progress(d), time_remaining(d, t), d.downloaded>>
    ELSE <<>>

\* history of the reads of one job: the last kwargs read and the progress
\* read before that
NoRead == [kwargs |-> <<>>, before |-> Undefined]
Read(old, kwargs) ==
    [kwargs |-> kwargs,
     before |-> IF old.kwargs = <<>> THEN Undefined ELSE old.kwargs[1]]

\* the answers to POST /p/telemetry; a field the code does not read for an
\* answer (the body of a gcode answer is not decoded) has one value
TelemetryResponses ==
    {NoResponse(s) : s \in TelemetryStatuses} \cup
    [status_code : {200}, command_id : Ids,
     content_type : ContentTypes \ {"application/json"}, body : {""}] \cup
    [status_code : {200}, command_id : Ids,
     content_type : {"application/json"}, body : Bodies]

\* the answers to POST /p/events: the statuses, and answers that carry what
\* a telemetry answer carries for a command
EventResponses ==
    {NoResponse(s) : s \in EventStatuses} \cup
    [status_code : {200}, command_id : Ids,
     content_type : {"application/json"}, body : {"SEND_INFO"}] \cup
    [status_code : {200}, command_id : Ids,
     content_type : {"text/x.gcode"}, body : {""}]

Init ==
    /\ server = None
    /\ token = None
    /\ \/ sn = None /\ fingerprint = None /\ type = None
       \/ /\ sn \in SnValues /\ fingerprint \in FingerprintValues
          /\ type \in TypeValues
    /\ queue = <<>>
    /\ errors \in Flags
    /\ command = NoCommand
    /\ running_loop = FALSE
    /\ pc = "init"
    /\ now = 0
    /\ download = NoJob
    /\ reads = NoRead
    /\ clock_adjusted = FALSE
    /\ last = NoStep
    /\ invoked = {}
    /\ stop_called = FALSE

\* loop() is called: line 589
LoopStart ==
    /\ pc = "init"
    /\ running_loop' = TRUE
    /\ pc' = "loop"
    /\ last' = NoStep
    /\ UNCHANGED <<server, token, sn, fingerprint, type, queue, errors,
                   command, now, invoked, stop_called>>
    /\ UNCHANGED <<download, reads, clock_adjusted>>

\* the while condition is false: loop() returns
LoopReturn ==
    /\ pc = "loop" /\ ~running_loop
    /\ pc' = "done"
    /\ last' = NoStep
    /\ UNCHANGED <<server, token, sn, fingerprint, type, queue, errors,
                   command, running_loop, now, invoked, stop_called>>
    /\ UNCHANGED <<download, reads, clock_adjusted>>

Dequeue == pc = "loop" /\ running_loop /\ queue # <<>>

\* queue.get times out: except Empty
LoopEmpty ==
    /\ pc = "loop" /\ running_loop /\ queue = <<>>
    /\ last' = Step("empty", NoItem, NoResponse(0), "Empty", FALSE)
    /\ UNCHANGED <<server, token, sn, fingerprint, type, queue, errors,
                   command, running_loop, pc, now, invoked, stop_called>>
    /\ UNCHANGED <<download, reads, clock_adjusted>>

\* line 593 without the test
has_server_untested == TRUE

\* line 593: "not self.server"
has_server == Truthy(server)

\* lines 593-595
LoopNoServer ==
    /\ Dequeue /\ ~has_server
    /\ queue' = Tail(queue)
    /\ last' = Step("noserver", Head(queue), NoResponse(0), "none", FALSE)
    /\ UNCHANGED <<server, token, sn, fingerprint, type, errors, command,
                   running_loop, pc, now, invoked, stop_called>>
    /\ UNCHANGED <<download, reads, clock_adjusted>>

\* lines 597 and 606 without "and self.token"
has_token_untested == TRUE

\* "and self.token" of lines 597 and 606
has_token == Truthy(token)

\* the except clauses with a put of the item that was taken
except_clauses_retrying(q) == put(Tail(q), Head(q))

\* lines 638-648: the except clauses log and set flags; the item taken at
\* line 592 is not put back
except_clauses(q) == Tail(q)

\* the HTTP call of an iteration raised exc
LoopFailed(exc) ==
    /\ queue' = except_clauses(queue)
    /\ errors' = on_exception(errors, exc)
    /\ pc' = after_exception(exc)
    /\ last' = Step("failed", Head(queue), NoResponse(0), exc, TRUE)
    /\ UNCHANGED <<server, token, sn, fingerprint, type, command,
                   running_loop, now, invoked, stop_called>>

\* history: the handler is invoked for command id
Invoke(inv, id) ==
    inv \cup {IF <<id, "once">> \in inv THEN <<id, "again">>
              ELSE <<id, "once">>}

\* parse_command called for the answer to every item
parsed_always(kind) == TRUE

\* line 605: parse_command(res) is in the Telemetry branch only
parsed(kind) == kind = "Telemetry"

\* lines 597-605 and, unless a handler is entered, 632-637
LoopTelemetry ==
    /\ Dequeue /\ has_server
    /\ Head(queue).type = "Telemetry" /\ has_token
    /\ parsed("Telemetry")
    /\ \/ \E exc \in Exceptions : LoopFailed(exc)
       \/ \E res \in TelemetryResponses :
            LET st == parse_command([queue |-> Tail(queue), errors |-> errors,
                                     command |-> command, invoke |-> FALSE],
                                    res)
            IN  /\ queue' = st.queue
                /\ command' = st.command
                /\ IF st.invoke
                   THEN /\ pc' = "handler"
                        /\ errors' = st.errors
                        /\ invoked' = Invoke(invoked, st.command.command_id)
                        /\ last' = Step("accept", Head(queue), res, "none",
                                        TRUE)
                   ELSE /\ pc' = "loop"
                        /\ errors' = update_flags(st.errors, res.status_code)
                        /\ invoked' = invoked
                        /\ last' = Step("telemetry", Head(queue), res,
                                        "none", TRUE)
                /\ UNCHANGED <<server, token, sn, fingerprint, type,
                               running_loop, now, stop_called>>
    /\ UNCHANGED <<download, reads>>
    /\ MakeHeaders

\* the handler called by accept returns or raises; accept and parse_command
\* return, and the iteration ends with lines 632-637 (the status was 200)
LoopHandlerReturn ==
    /\ pc = "handler"
    /\ \E result \in HandlerResults(command.command) :
        LET st == finish([queue |-> queue, errors |-> errors,
                          command |-> command, invoke |-> FALSE], result)
        IN  /\ queue' = st.queue
            /\ command' = st.command
            /\ errors' = update_flags(st.errors, 200)
            /\ last' = Step("handled", TelemetryItem, NoResponse(200),
                            IF result.ok THEN "none" ELSE result.reason,
                            TRUE)
    /\ pc' = "loop"
    /\ UNCHANGED <<server, token, sn, fingerprint, type, running_loop, now,
                   invoked, stop_called>>
    /\ UNCHANGED <<download, reads, clock_adjusted>>

\* lines 606-613, 632-637
LoopEvent ==
    /\ Dequeue /\ has_server
    /\ Head(queue).type = "Event" /\ has_token
    /\ \/ \E exc \in Exceptions : LoopFailed(exc)
       \/ \E res \in EventResponses :
            LET unparsed == [queue |-> Tail(queue), errors |-> errors,
                             command |-> command, invoke |-> FALSE]
                st == IF parsed("Event") THEN parse_command(unparsed, res)
                      ELSE unparsed
            IN  /\ queue' = st.queue
                /\ command' = st.command
                /\ errors' = update_flags(st.errors, res.status_code)
                /\ pc' = IF st.invoke THEN "handler" ELSE pc
                /\ invoked' = IF st.invoke
                              THEN Invoke(invoked, st.command.command_id)
                              ELSE invoked
                /\ last' = Step("event", Head(queue), res, "none", TRUE)
                /\ UNCHANGED <<server, token, sn, fingerprint, type,
                               running_loop, now, stop_called>>
    /\ UNCHANGED <<download, reads>>
    /\ MakeHeaders

\* line 624 with the deadline itself still in time
requeue_at_deadline(item, status_code) ==
    status_code = 202 /\ item.timeout >= now

\* line 624 without the deadline
requeue_pending(item, status_code) == status_code = 202

\* line 624: a pending answer before the deadline
requeue(item, status_code) == status_code = 202 /\ item.timeout > now

\* line 623 before line 620: the callback gets the token of before
store_token_late(old, hdr) == [token |-> hdr, arg |-> old]

\* lines 620-623: the token that is stored and the one register_handler is
\* called with (self.token, read back after the assignment)
store_token(old, hdr) == [token |-> hdr, arg |-> hdr]

\* lines 614-626, 632-637.  register_handler is the default handler, which
\* raises for an empty token (assert token), or one the application has set,
\* which may raise for any token.
LoopRegister ==
    /\ Dequeue /\ has_server
    /\ Head(queue).type = "Register"
    /\ LET item == Head(queue) IN
       \/ \E exc \in Exceptions : LoopFailed(exc)
       \/ \E status \in PollStatuses \ {200} :
            /\ IF requeue(item, status)
               THEN /\ (now % CODE_TIMEOUT) < MaxSleeps
                    /\ queue' = put(Tail(queue), item)
                    /\ now' = now + 1
               ELSE /\ queue' = Tail(queue)
                    /\ now' = now
            /\ errors' = update_flags(errors, status)
            /\ last' = Step("register", item, NoResponse(status),
                            "none", TRUE)
            /\ UNCHANGED <<server, token, sn, fingerprint, type, command,
                           running_loop, pc, invoked, stop_called>>
       \/ \E hdr \in TokenHeaders, raises \in BOOLEAN :
            /\ queue' = Tail(queue)
            /\ IF hdr = None
               THEN \* res.headers["Token"]: KeyError
                    /\ token' = token
                    /\ errors' = on_exception(errors, "KeyError")
                    /\ pc' = after_exception("KeyError")
                    /\ last' = Step("register", item, NoResponse(200),
                                    "KeyError", TRUE)
               ELSE LET r == store_token(token, hdr)
                        e == [errors EXCEPT !.TOKEN = TRUE]
                        exc == IF raises THEN "CallbackError" ELSE "none"
                    IN  /\ token' = r.token
                        /\ errors' = IF raises
                                      THEN on_exception(e, "CallbackError")
                                      ELSE update_flags(e, 200)
                        /\ pc' = IF raises
                                  THEN after_exception("CallbackError")
                                  ELSE pc
                        /\ last' = [Step("register", item, NoResponse(200),
                                         exc, TRUE) EXCEPT !.arg = r.arg]
            /\ UNCHANGED <<server, sn, fingerprint, type, command,
                           running_loop, now, invoked, stop_called>>
    /\ UNCHANGED <<download, reads>>
    /\ MakeHeaders

\* lines 627-630
LoopNoToken ==
    /\ Dequeue /\ has_server
    /\ Head(queue).type \in {"Telemetry", "Event"} /\ ~has_token
    /\ queue' = Tail(queue)
    /\ last' = Step("notoken", Head(queue), NoResponse(0), "none", FALSE)
    /\ UNCHANGED <<server, token, sn, fingerprint, type, errors, command,
                   running_loop, pc, now, invoked, stop_called>>
    /\ UNCHANGED <<download, reads, clock_adjusted>>

\* ------------------------------------------------ the other threads
\* the application stops producing at MaxQueue queued events and telemetry
\* samples, and does not call register() while a registration is pending
Count(kinds) == Cardinality({i \in 1..Len(queue) : queue[i].type \in kinds})
Room == Count({"Event", "Telemetry"}) < MaxQueue
RegisterRoom == Count({"Register"}) = 0

\* event_cb called by the application (set_state, file system events)
EventCb ==
    /\ IF Truthy(token) THEN Room ELSE TRUE
    /\ LET st == event_cb([queue |-> queue, errors |-> errors,
                           command |-> command, invoke |-> FALSE],
                          EventItem("STATE_CHANGED", NoId, ""))
       IN  queue' = st.queue /\ errors' = st.errors
    /\ last' = NoStep
    /\ UNCHANGED <<server, token, sn, fingerprint, type, command,
                   running_loop, pc, now, invoked, stop_called>>
    /\ UNCHANGED <<download, reads, clock_adjusted>>

\* telemetry() that never returns early
telemetry_skipped_never == FALSE

\* lines 281-283: "if not self.token: return"
telemetry_skipped == ~Truthy(token)

\* telemetry(): lines 281-296
Telemetry ==
    /\ IF ~telemetry_skipped
       THEN /\ Room
            /\ errors' = is_initialised_errors(errors)
            /\ queue' = put(queue,
                    TelemetrySample(IF is_initialised
                                    THEN download_kwargs(download, now)
                                    ELSE <<>>))
            /\ reads' = IF has_current(download)
                        THEN Read(reads, download_kwargs(download, now))
                        ELSE reads
       ELSE UNCHANGED <<queue, errors, reads>>
    /\ last' = NoStep
    /\ UNCHANGED <<server, token, sn, fingerprint, type, command,
                   running_loop, pc, now, download, invoked, stop_called>>
    /\ UNCHANGED clock_adjusted

RegisterRaised(exc, status, http) ==
    /\ last' = Step("register()", NoItem, NoResponse(status), exc, http)
    /\ UNCHANGED <<queue>>

\* register(): lines 542-568
RegisterCall ==
    /\ RegisterRoom
    /\ IF ~Truthy(server)
       THEN RegisterRaised("RuntimeError", 0, FALSE) /\ UNCHANGED errors
       ELSE IF type = None
       THEN RegisterRaised("AttributeError", 0, FALSE) /\ UNCHANGED errors
       ELSE \/ \* conn.post raises (a ConnectionError is a RequestException)
               RegisterRaised("RequestException", 0, TRUE)
               /\ UNCHANGED errors
            \/ \E code \in Codes \cup {None} :
                 IF code = None
                 THEN RegisterRaised("KeyError", 200, TRUE)
                      /\ UNCHANGED errors
                 ELSE /\ queue' = put(queue, Register(code))
                      /\ errors' = [errors EXCEPT !.API = TRUE]
                      /\ last' = Step("register()", NoItem, NoResponse(200),
                                      "none", TRUE)
            \/ \E status \in RegisterStatuses \ {200} :
                 /\ errors' = [errors EXCEPT !.HTTP = (status < 500),
                                             !.API = FALSE]
                 /\ RegisterRaised("RuntimeError", status, TRUE)
    /\ UNCHANGED <<server, token, sn, fingerprint, type, command,
                   running_loop, pc, now, invoked, stop_called>>
    /\ UNCHANGED <<download, reads>>
    /\ MakeHeaders

\* the values an application assigns to the identity fields
SnInputs == SnValues \cup {""}
FingerprintInputs == FingerprintValues \cup {""}
TypeInputs == TypeValues \cup {"SL1"}

\* the test of the setters with "if self.__sn:"
already_set_truthy(v) == Truthy(v)

\* lines 182, 194, 206: "is not None"
already_set(v) == v # None

\* one setter: field is the value it has, value the one assigned
Setter(name, field, value) ==
    LET exc == IF already_set(field) THEN "RuntimeError" ELSE "none"
    IN  [value |-> IF already_set(field) THEN field ELSE value,
         step |-> Step("setter", [type |-> name, timeout |-> 0],
                       NoResponse(0), exc, FALSE)]

\* the setters of sn, fingerprint and type: lines 179-208
SetIdentity ==
    /\ \/ \E v \in SnInputs :
            /\ sn' = Setter("sn", sn, v).value
            /\ last' = Setter("sn", sn, v).step
            /\ UNCHANGED <<fingerprint, type>>
       \/ \E v \in FingerprintInputs :
            /\ fingerprint' = Setter("fingerprint", fingerprint, v).value
            /\ last' = Setter("fingerprint", fingerprint, v).step
            /\ UNCHANGED <<sn, type>>
       \/ \E v \in TypeInputs :
            /\ type' = Setter("type", type, v).value
            /\ last' = Setter("type", type, v).step
            /\ UNCHANGED <<sn, fingerprint>>
    /\ UNCHANGED <<server, token, queue, errors, command, running_loop, pc,
                   now, invoked, stop_called>>
    /\ UNCHANGED <<download, reads, clock_adjusted>>

\* printer.server = url, as an application does before register()
SetServer ==
    /\ server = None
    /\ server' = "http://connect"
    /\ last' = NoStep
    /\ UNCHANGED <<token, sn, fingerprint, type, queue, errors, command,
                   running_loop, pc, now, invoked, stop_called>>
    /\ UNCHANGED <<download, reads, clock_adjusted>>

\* printer.token = token, as an application does with a token it has stored
SetToken ==
    /\ token = None
    /\ token' \in Tokens
    /\ last' = NoStep
    /\ UNCHANGED <<server, sn, fingerprint, type, queue, errors, command,
                   running_loop, pc, now, invoked, stop_called>>
    /\ UNCHANGED <<download, reads, clock_adjusted>>

\* set_connection(path): the ini file of a registered printer
SetConnection ==
    /\ server' = "http://connect"
    /\ token' \in Tokens
    /\ errors' = [errors EXCEPT !.TOKEN = TRUE]
    /\ last' = NoStep
    /\ <<server, token, errors.TOKEN>> # <<server', token', TRUE>>
    /\ UNCHANGED <<sn, fingerprint, type, queue, command, running_loop, pc,
                   now, invoked, stop_called>>
    /\ UNCHANGED <<download, reads, clock_adjusted>>

\* stop_loop(): lines 650-652
StopLoop ==
    /\ running_loop' = FALSE
    /\ stop_called' = TRUE
    /\ last' = NoStep
    /\ UNCHANGED <<server, token, sn, fingerprint, type, queue, errors,
                   command, pc, now, invoked>>
    /\ UNCHANGED <<download, reads, clock_adjusted>>

\* time passes
Tick ==
    /\ now < MaxTicks * CODE_TIMEOUT
    /\ now' = now + CODE_TIMEOUT
    /\ last' = NoStep
    /\ UNCHANGED <<server, token, sn, fingerprint, type, queue, errors,
                   command, running_loop, pc, invoked, stop_called>>
    /\ UNCHANGED <<download, reads, clock_adjusted>>

\* the watcher finds that the clock of the host has jumped
ClockJump ==
    /\ ~clock_adjusted
    /\ clock_adjusted' = TRUE
    /\ last' = NoStep
    /\ UNCHANGED <<server, token, sn, fingerprint, type, queue, errors,
                   command, running_loop, pc, now, download, reads, invoked,
                   stop_called>>

\* download_start(caller): lines 343-356
DownloadStart ==
    /\ \E args \in DownloadArgs, total \in Totals :
         IF Len(args) # 4
         THEN /\ last' = Step("download_start", NoItem, NoResponse(0),
                              "ValueError", FALSE)
              /\ UNCHANGED <<download, reads>>
         ELSE LET r == start(download, args, total, now)
              IN  /\ download' = r.job
                  /\ reads' = IF r.exc = "none" THEN NoRead ELSE reads
                  /\ last' = Step("download_start",
                                  [type |-> args[1], timeout |-> 0],
                                  NoResponse(0), r.exc, FALSE)
    /\ UNCHANGED <<server, token, sn, fingerprint, type, queue, errors,
                   command, running_loop, pc, now, invoked, stop_called>>
    /\ UNCHANGED clock_adjusted

\* download_stop(caller): lines 358-362
DownloadStop ==
    /\ download' = stop(download)
    /\ last' = NoStep
    /\ UNCHANGED <<server, token, sn, fingerprint, type, queue, errors,
                   command, running_loop, pc, now, reads, invoked,
                   stop_called>>
    /\ UNCHANGED clock_adjusted

\* download_info(caller): lines 364-370
DownloadInfo ==
    /\ reads' = IF has_current(download)
                THEN Read(reads, info(download, now))
                ELSE reads
    /\ last' = NoStep
    /\ UNCHANGED <<server, token, sn, fingerprint, type, queue, errors,
                   command, running_loop, pc, now, download, invoked,
                   stop_called>>
    /\ UNCHANGED clock_adjusted

\* the transfer writes a chunk and updates the byte counter
Transfer ==
    /\ has_current(download)
    /\ download.downloaded < BodySize
    /\ download' = [download EXCEPT !.downloaded = @ + 1]
    /\ last' = NoStep
    /\ UNCHANGED <<server, token, sn, fingerprint, type, queue, errors,
                   command, running_loop, pc, now, reads, invoked,
                   stop_called>>
    /\ UNCHANGED clock_adjusted

\* the transfer ends: the job is FINISHED and the slot is free
TransferFinished ==
    /\ has_current(download)
    /\ download.downloaded = BodySize
    /\ download' = [download EXCEPT !.state = "FINISHED"]
    /\ last' = NoStep
    /\ UNCHANGED <<server, token, sn, fingerprint, type, queue, errors,
                   command, running_loop, pc, now, reads, invoked,
                   stop_called>>
    /\ UNCHANGED clock_adjusted

\* the transfer fails: the job is FAILED, a failure event is emitted
TransferFailed ==
    /\ has_current(download)
    /\ IF Truthy(token) THEN Room ELSE TRUE
    /\ download' = [download EXCEPT !.state = "FAILED"]
    /\ LET st == event_cb([queue |-> queue, errors |-> errors,
                           command |-> command, invoke |-> FALSE],
                          EventItem("FAILED", NoId, "download"))
       IN  queue' = st.queue /\ errors' = st.errors
    /\ last' = NoStep
    /\ UNCHANGED <<server, token, sn, fingerprint, type, command,
                   running_loop, pc, now, reads, invoked, stop_called>>
    /\ UNCHANGED clock_adjusted

\* every operation
Next ==
    \/ LoopStart \/ LoopReturn \/ LoopEmpty \/ LoopNoServer \/ LoopTelemetry
    \/ LoopHandlerReturn \/ LoopEvent \/ LoopRegister \/ LoopNoToken
    \/ EventCb \/ Telemetry \/ RegisterCall \/ SetIdentity \/ SetServer
    \/ SetToken \/ SetConnection \/ StopLoop \/ Tick
    \/ DownloadStart \/ DownloadStop \/ DownloadInfo \/ Transfer
    \/ TransferFinished \/ TransferFailed \/ ClockJump

Spec == Init /\ [][Next]_vars

\* The specifications below are Spec with part of the environment left out:
\* each keeps the whole loop step of the operations it has.

\* commands: a printer configured by set_connection, an application that
\* produces telemetry and events, a server that answers telemetry
NextCmd ==
    \/ LoopStart \/ LoopEmpty \/ LoopTelemetry \/ LoopHandlerReturn
    \/ LoopEvent \/ EventCb \/ Telemetry \/ SetConnection

SpecCmd == Init /\ [][NextCmd]_vars

\* SpecCmd with a handler that returns or raises: the call of line 512 or
\* 520 ends
SpecCmdLive == SpecCmd /\ WF_vars(LoopHandlerReturn)

\* the network: every kind of item and exchange, registration included; the
\* clock moves by the loop's sleep(1) only and the loop is not stopped
NextNet ==
    \/ LoopStart \/ LoopEmpty \/ LoopNoServer \/ LoopTelemetry
    \/ LoopHandlerReturn \/ LoopEvent \/ LoopRegister \/ LoopNoToken
    \/ EventCb \/ Telemetry \/ RegisterCall \/ SetServer \/ SetToken
    \/ SetConnection

SpecNet == Init /\ [][NextNet]_vars

\* register() called by the application of a printer that has no token
RegisterFresh == token = None /\ RegisterCall

\* the exchanges of a printer that registers and then reports, with
\* stop_loop
NextStop ==
    \/ LoopStart \/ LoopReturn \/ LoopEmpty \/ LoopTelemetry
    \/ LoopHandlerReturn \/ LoopEvent \/ LoopRegister \/ EventCb
    \/ Telemetry \/ RegisterFresh \/ SetServer \/ StopLoop

SpecStop == Init /\ [][NextStop]_vars

\* the steps of the thread that calls loop()
LoopThread ==
    \/ LoopStart \/ LoopReturn \/ LoopEmpty \/ LoopNoServer \/ LoopTelemetry
    \/ LoopHandlerReturn \/ LoopEvent \/ LoopRegister \/ LoopNoToken

\* SpecStop with a thread that runs: loop() is entered, and every HTTP
\* call, handler and callback returns
SpecStopLive == SpecStop /\ WF_vars(LoopThread)

\* the identity setters, with the commands of a configured printer
NextIdentity == NextCmd \/ SetIdentity

SpecIdentity == Init /\ [][NextIdentity]_vars

\* the download manager, its transfer and telemetry of a printer that has
\* a token and no server, at one instant of the clock
NextDownload ==
    \/ LoopStart \/ LoopNoServer \/ SetToken \/ Telemetry
    \/ DownloadStart \/ DownloadStop \/ DownloadInfo \/ Transfer
    \/ TransferFinished \/ TransferFailed

SpecDownload == Init /\ [][NextDownload]_vars

\* the requests of a configured printer whose clock jumps
NextClock ==
    \/ LoopStart \/ LoopEmpty \/ LoopTelemetry \/ LoopHandlerReturn
    \/ LoopEvent \/ Telemetry \/ SetConnection \/ ClockJump

SpecClock == Init /\ [][NextClock]_vars

\* registration polling against the clock
NextPoll ==
    \/ LoopStart \/ LoopEmpty \/ LoopRegister \/ RegisterCall \/ SetServer
    \/ Tick

SpecPoll == Init /\ [][NextPoll]_vars

\* every kind of item against failing requests and the clock
NextRetry ==
    \/ LoopStart \/ LoopTelemetry \/ LoopHandlerReturn \/ LoopEvent
    \/ LoopRegister \/ EventCb \/ Telemetry \/ RegisterFresh \/ SetServer
    \/ Tick

SpecRetry == Init /\ [][NextRetry]_vars

\* SpecPoll with a loop that is entered and whose polls return, and with a
\* clock that goes on
SpecPollLive ==
    SpecPoll /\ WF_vars(LoopStart) /\ WF_vars(LoopRegister) /\ WF_vars(Tick)

\* ====================================================== properties
InFlight == command.state # None

\* the events of q that report the outcome of command id
Outcomes(q, id) ==
    {i \in 1..Len(q) : q[i].command_id = id /\ q[i].event # "ACCEPTED"}

\* the step enters a handler / the handler's call ends
Accepts == pc = "loop" /\ pc' = "handler"
Resolves == pc = "handler" /\ pc' # "handler"

C2_Original ==
    [][Accepts => <<command'.command_id, "once">> \notin invoked]_vars

\* C2 amended: a handler is invoked only for a delivery that finds the slot
\* free, once, for the delivered id; that invocation adds exactly one outcome
\* event with the id when it ends and none before; a delivery of the same id
\* after the command has resolved is accepted and handled again.
C2_Theorem ==
    [][/\ Accepts =>
            /\ ~InFlight
            /\ command'.command_id = last'.res.command_id
            /\ <<command'.command_id, "once">> \in invoked'
            /\ Outcomes(queue', command'.command_id)
                 = Outcomes(Tail(queue), command'.command_id)
       /\ Resolves =>
            Cardinality(Outcomes(queue', command.command_id))
              = Cardinality(Outcomes(queue, command.command_id)) + 1
       /\ (pc = "handler" /\ pc' = "handler") =>
            /\ invoked' = invoked
            /\ \A id \in Ids : Outcomes(queue', id) = Outcomes(queue, id)
      ]_vars

C2_Witness ==
    /\ last.op = "handled" /\ <<1, "again">> \in invoked
    /\ Cardinality(Outcomes(queue, 1)) = 1

\* C3: when accept has returned no command is in flight, whether the handler
\* succeeded, failed, or no handler is registered for the name; in the last
\* two cases REJECTED with the failure reason is produced for the id; a slot
\* that is occupied becomes free.
C3_Theorem ==
    /\ [][/\ pc' # "handler" => ~InFlight'
          /\ (Resolves /\ last'.exc # "none") =>
                queue' = Append(queue, EventItem("REJECTED",
                                                 command.command_id,
                                                 last'.exc))
          /\ (pc = "loop" /\ pc' = "loop" /\ last'.op = "telemetry"
              /\ last'.res.status_code = 200 /\ last'.res.command_id \in Ids
              /\ is_initialised
              /\ \/ last'.res.content_type = "text/x.gcode"
                 \/ /\ last'.res.content_type = "application/json"
                    /\ last'.res.body \in CommandNames \ handlers) =>
                queue' = Tail(queue) \o
                    << EventItem("ACCEPTED", last'.res.command_id, ""),
                       EventItem("REJECTED", last'.res.command_id,
                                 "no handler") >>
         ]_vars
    /\ (InFlight ~> ~InFlight)

C3_Witness ==
    /\ pc = "loop" /\ ~InFlight /\ queue # <<>>
    /\ queue[Len(queue)].event = "REJECTED"
    /\ queue[Len(queue)].reason \in {"no handler", "ValueError"}

\* C10: a telemetry answer 200 with Command-Id N and a JSON body naming a
\* command with a handler, on an initialised printer with no command in
\* flight, enqueues exactly ACCEPTED(N); the handler's end enqueues exactly
\* one outcome event with id N behind it, of kind INFO for SEND_INFO; nothing
\* else with a command id is enqueued in between.
C10_Theorem ==
    [][/\ (pc = "loop" /\ last'.op \in {"accept", "telemetry"}
           /\ last'.res.status_code = 200 /\ last'.res.command_id \in Ids
           /\ last'.res.content_type = "application/json"
           /\ last'.res.body \in handlers
           /\ is_initialised /\ ~InFlight) =>
             /\ queue' = Append(Tail(queue),
                                EventItem("ACCEPTED", last'.res.command_id,
                                          ""))
             /\ pc' = "handler"
             /\ command' = [state |-> "ACCEPTED",
                            command_id |-> last'.res.command_id,
                            command |-> last'.res.body]
       /\ pc = "handler" =>
             \/ /\ pc' = "handler"
                /\ \/ queue' = queue
                   \/ /\ Len(queue') = Len(queue) + 1
                      /\ queue' = Append(queue, queue'[Len(queue')])
                      /\ queue'[Len(queue')].command_id = NoId
             \/ /\ pc' = "loop"
                /\ \E kind \in {"INFO", "FILE_INFO", "REJECTED"} :
                     /\ queue' = Append(queue,
                            EventItem(kind, command.command_id,
                                      queue'[Len(queue')].reason))
                     /\ command.command = "SEND_INFO" => kind = "INFO"
      ]_vars

C10_Witness ==
    /\ last.op = "handled" /\ Len(queue) >= 2
    /\ queue[Len(queue)].event = "INFO"
    /\ queue[Len(queue) - 1].event = "ACCEPTED"
    /\ queue[Len(queue) - 1].command_id = queue[Len(queue)].command_id

\* ----------------------------------------------------- the dispatch loop
\* the step is an iteration (or its end) of loop() / is a call of register()
LoopStep == last'.op \in LoopOps
RegisterStep == last'.op = "register()"
\* the iteration ends having received a response
ResponseStep == last'.op \in {"telemetry", "event", "register", "handled"}
Raised == {"KeyError", "CallbackError"}

\* C4 as stated: with no token set the loop makes no HTTP call, whatever the
\* item is.
C4_Original ==
    [][(pc = "loop" /\ ~Truthy(token) /\ LoopStep) => ~last'.http]_vars

\* C4 amended: with no token set an Event or a Telemetry item causes no HTTP
\* call; a Register item causes the GET /p/register of its poll when the
\* server is set.
C4_Theorem ==
    [][(pc = "loop" /\ ~Truthy(token) /\ LoopStep) =>
        /\ last'.http <=> (last'.item = "Register" /\ Truthy(server))
        /\ last'.item \in {"Event", "Telemetry"} =>
             /\ queue' = Tail(queue)
             /\ errors' = errors /\ command' = command /\ token' = token]_vars

C4_Witness ==
    /\ ~Truthy(token) /\ Truthy(server) /\ last.op = "notoken"
    /\ last.item = "Event"

\* C5: a Register item answered 202 is dropped when its deadline has been
\* reached, and is put back at the end of the queue, once, followed by a pause
\* of one second, when it has not.
C5_Theorem ==
    [][(last'.op = "register" /\ last'.res.status_code = 202) =>
        IF Head(queue).timeout > now
        THEN /\ queue' = Append(Tail(queue), Head(queue))
             /\ now' = now + 1
        ELSE /\ queue' = Tail(queue)
             /\ now' = now]_vars

C5_Witness ==
    /\ last.op = "register" /\ last.res.status_code = 202
    /\ last.timeout < now /\ queue = <<>>

\* C6 as stated: a 401 on any exchange, the POST of register() included, sets
\* TOKEN to false and leaves HTTP as it was.
C6_Original ==
    [][((ResponseStep \/ RegisterStep) /\ last'.res.status_code = 401) =>
        /\ ~errors'.TOKEN
        /\ errors'.HTTP = errors.HTTP]_vars

\* C6 amended: a 401 to the telemetry POST, the event POST or the poll GET
\* sets TOKEN to false and leaves HTTP as it was; a 401 to the POST of
\* register() leaves TOKEN as it was, sets HTTP to true and API to false.
C6_Theorem ==
    [][/\ (ResponseStep /\ last'.res.status_code = 401) =>
            errors' = [errors EXCEPT !.TOKEN = FALSE, !.API = FALSE]
       /\ (RegisterStep /\ last'.res.status_code = 401) =>
            errors' = [errors EXCEPT !.HTTP = TRUE, !.API = FALSE]]_vars

C6_Witness ==
    /\ last.op = "event" /\ last.res.status_code = 401
    /\ ~errors.HTTP /\ ~errors.TOKEN

\* C7 as stated: after every iteration that received a response API is true
\* exactly if the status is below 400.
C7_Original ==
    [][ResponseStep => (errors'.API <=> last'.res.status_code < 400)]_vars

\* C7 amended: as stated for every iteration that reaches lines 632-637; when
\* the 200 answer to a poll has no Token header, or the registration callback
\* raises, API keeps the value it had and INTERNET is set to false.
C7_Theorem ==
    [][ResponseStep =>
        IF last'.exc \in Raised
        THEN errors'.API = errors.API /\ ~errors'.INTERNET
        ELSE errors'.API <=> last'.res.status_code < 400]_vars

C7_Witness ==
    /\ last.op = "telemetry" /\ last.res.status_code = 200
    /\ last.res.command_id \in Ids /\ ~is_initialised /\ errors.API

\* C8 as stated: a failure raised by a command handler is among the
\* unexpected failures that set INTERNET to false.
C8_Original ==
    [][(last'.op = "handled" /\ last'.exc # "none") => ~errors'.INTERNET]_vars

\* C8 amended: a ConnectionError of the HTTP call sets HTTP to false and no
\* other flag; another RequestException, a missing Token header or a failure
\* of the registration callback sets INTERNET to false and no other flag to
\* false (the callback runs after TOKEN was set to true); a failure of a
\* command handler is reported as REJECTED and sets no flag to false; the
\* queue-empty timeout changes nothing.
C8_Theorem ==
    [][/\ (last'.op = "failed" /\ last'.exc = "ConnectionError") =>
            errors' = [errors EXCEPT !.HTTP = FALSE]
       /\ (last'.op = "failed" /\ last'.exc = "RequestException") =>
            errors' = [errors EXCEPT !.INTERNET = FALSE]
       /\ (last'.op = "register" /\ last'.exc = "KeyError") =>
            errors' = [errors EXCEPT !.INTERNET = FALSE]
       /\ (last'.op = "register" /\ last'.exc = "CallbackError") =>
            errors' = [errors EXCEPT !.INTERNET = FALSE, !.TOKEN = TRUE]
       /\ (last'.op = "handled" /\ last'.exc # "none") =>
            /\ errors' = [errors EXCEPT !.API = TRUE]
            /\ queue'[Len(queue')].event = "REJECTED"
       /\ last'.op = "empty" =>
            UNCHANGED <<server, token, sn, fingerprint, type, queue, errors,
                        command, running_loop, pc, now>>]_vars

C8_Witness ==
    /\ last.op = "register" /\ last.exc = "CallbackError"
    /\ ~errors.INTERNET /\ errors.HTTP /\ errors.TOKEN

\* C9: no failure while an item is processed ends the loop: after a failed
\* call, a rejected answer, a failed handler or callback the thread is back
\* at the while; loop() returns only when stop_loop has been called.
C9_Theorem ==
    [][/\ (LoopStep /\ \/ last'.op = "failed"
                        \/ last'.exc # "none"
                        \/ (last'.op = "telemetry"
                            /\ queue' # Tail(queue))) =>
             pc' = "loop" /\ running_loop' = running_loop
       /\ (pc # "done" /\ pc' = "done") => stop_called /\ ~running_loop]_vars

C9_Witness ==
    /\ pc = "loop" /\ running_loop /\ ~stop_called
    /\ last.op = "register" /\ last.exc = "CallbackError"

\* ------------------------------------------------- answers to telemetry
\* the step is the iteration of a telemetry sample answered by res, on a
\* printer with a free command slot
TelemetryStep == pc = "loop" /\ last'.op \in {"accept", "telemetry"}
Answer == last'.res

\* C11: a telemetry sample answered 204 has no command side effect: no
\* handler is invoked, nothing is enqueued, the command slot is unchanged; the
\* API flag is true afterwards and no other flag changes.
C11_Theorem ==
    [][(TelemetryStep /\ Answer.status_code = 204) =>
        /\ queue' = Tail(queue)
        /\ command' = command /\ invoked' = invoked /\ pc' = "loop"
        /\ errors' = [errors EXCEPT !.API = TRUE]]_vars

C11_Witness ==
    /\ last.op = "telemetry" /\ last.res.status_code = 204
    /\ queue = <<>> /\ errors.API /\ ~is_initialised

\* C12: a 200 answer whose Command-Id is missing or no integer enqueues one
\* REJECTED event with the reason "Invalid Command-Id header" and no command
\* id, whatever else the answer holds and whether or not the printer is
\* initialised; nothing is accepted and the command slot is unchanged.
C12_Theorem ==
    [][(TelemetryStep /\ Answer.status_code = 200
        /\ Answer.command_id = BadId) =>
        /\ queue' = Append(Tail(queue),
                           EventItem("REJECTED", NoId,
                                     "Invalid Command-Id header"))
        /\ command' = command /\ invoked' = invoked /\ pc' = "loop"
        /\ errors' = [errors EXCEPT !.API = TRUE]]_vars

C12_Witness ==
    /\ last.op = "telemetry" /\ last.res.status_code = 200
    /\ last.res.command_id = BadId
    /\ queue = << EventItem("REJECTED", NoId, "Invalid Command-Id header") >>

\* an identity field is missing or empty
IdentityMissing ==
    sn \in {None, ""} \/ fingerprint \in {None, ""} \/ type = None

\* C13: a 200 answer with a valid Command-Id on a printer whose identity is
\* not initialised enqueues one REJECTED event with that id and the
\* not-initialised reason; the command is not accepted, no handler invoked.
C13_Theorem ==
    [][(TelemetryStep /\ Answer.status_code = 200
        /\ Answer.command_id \in Ids /\ IdentityMissing) =>
        /\ queue' = Append(Tail(queue),
                           EventItem("REJECTED", Answer.command_id,
                                     NOT_INITIALISED_MSG))
        /\ command' = command /\ invoked' = invoked /\ pc' = "loop"]_vars

C13_Witness ==
    /\ last.op = "telemetry" /\ last.res.status_code = 200
    /\ last.res.content_type = "application/json"
    /\ last.res.body = "SEND_INFO" /\ IdentityMissing
    /\ queue = << EventItem("REJECTED", 1, NOT_INITIALISED_MSG) >>

\* C14: a 200 answer with a valid Command-Id on an initialised printer whose
\* content type is neither application/json nor text/x.gcode, an absent
\* content type included, enqueues one REJECTED event with that id and the
\* reason "Invalid command content type", and no command is accepted.
C14_Claim ==
    [][(TelemetryStep /\ Answer.status_code = 200
        /\ Answer.command_id \in Ids /\ is_initialised
        /\ Answer.content_type \notin {"application/json", "text/x.gcode"}) =>
        /\ queue' = Append(Tail(queue),
                           EventItem("REJECTED", Answer.command_id,
                                     "Invalid command content type"))
        /\ command' = command /\ invoked' = invoked /\ pc' = "loop"]_vars

\* C19: while no server is set, an item the loop takes from the queue is
\* removed and discarded: no HTTP call, nothing put back, no change of a
\* health flag, of the token or of the command.
C19_Theorem ==
    [][(pc = "loop" /\ ~Truthy(server) /\ LoopStep /\ queue # <<>>) =>
        /\ ~last'.http
        /\ queue' = Tail(queue)
        /\ UNCHANGED <<errors, token, server, command, invoked, pc, now>>
      ]_vars

C19_Witness ==
    /\ ~Truthy(server) /\ Truthy(token) /\ last.op = "noserver"
    /\ last.item = "Event" /\ queue = <<>>

\* C18: a poll answered 200 with a token stores that token, sets the TOKEN
\* flag, and calls register_handler with the stored token within the same
\* iteration, before another item is taken; the Register item is not put
\* back; this is so whether or not the callback raises.
C18_Theorem ==
    [][(last'.op = "register" /\ Answer.status_code = 200
        /\ last'.exc # "KeyError") =>
        /\ last'.arg # None
        /\ token' = last'.arg
        /\ errors'.TOKEN
        /\ queue' = Tail(queue)
        /\ pc' = "loop"]_vars

C18_Witness ==
    /\ last.op = "register" /\ last.res.status_code = 200
    /\ last.exc = "none" /\ last.arg = "t1" /\ token = "t1"
    /\ errors.TOKEN /\ queue = <<>>

\* C20: a call of register() either returns the temporary code of a 200
\* answer after putting exactly one Register item with that code on the
\* queue, or fails with a RuntimeError and puts nothing on the queue, in
\* every state of the printer.
C20_Claim ==
    [][RegisterStep =>
        \/ /\ last'.exc = "none" /\ Answer.status_code = 200
           /\ \E code \in Codes : queue' = Append(queue, Register(code))
        \/ /\ last'.exc = "RuntimeError"
           /\ queue' = queue]_vars

\* C17: sn, fingerprint and type are write-once: an assignment to a field
\* that has a value raises and leaves the three fields as they are, an
\* assignment to a field without value sets that field only, and no
\* operation changes a field that has a value.
C17_Theorem ==
    [][/\ sn # None => sn' = sn
       /\ fingerprint # None => fingerprint' = fingerprint
       /\ type # None => type' = type
       /\ last'.op = "setter" =>
            LET old == CASE last'.item = "sn" -> sn
                         [] last'.item = "fingerprint" -> fingerprint
                         [] OTHER -> type
            IN  IF old # None
                THEN /\ last'.exc = "RuntimeError"
                     /\ UNCHANGED <<sn, fingerprint, type>>
                ELSE last'.exc = "none"]_vars

C17_Witness ==
    /\ last.op = "setter" /\ last.item = "sn" /\ last.exc = "RuntimeError"
    /\ sn = "" /\ fingerprint = None

\* C15: the manager has one slot, and a start issued while its job is
\* IN_PROGRESS fails, queues nothing and leaves the job as it is: url,
\* destination, byte counters and state.
C15_Theorem ==
    [][(last'.op = "download_start" /\ download.state = "IN_PROGRESS") =>
        /\ last'.exc # "none"
        /\ download' = download
        /\ queue' = queue]_vars

C15_Witness ==
    /\ last.op = "download_start" /\ last.exc = "failed"
    /\ download.state = "IN_PROGRESS" /\ download.downloaded = 1
    /\ last.item # download.url

\* C16: while a job is IN_PROGRESS its byte counter does not go down and its
\* total stays, a progress read of a job is not below the progress read
\* before of the same job, and a read made with zero bytes transferred has
\* an undefined time_remaining and does not fail: download_info returns,
\* telemetry() queues its sample.
C16_Theorem ==
    [][/\ (download.state = "IN_PROGRESS"
           /\ download'.state = "IN_PROGRESS") =>
            /\ download'.downloaded >= download.downloaded
            /\ download'.total = download.total
       /\ (reads'.kwargs # <<>> /\ reads.kwargs # <<>>) =>
            reads'.kwargs[1] >= reads.kwargs[1]
       /\ (reads' # reads /\ reads'.kwargs # <<>>
           /\ download.downloaded = 0) =>
            /\ reads'.kwargs[2] = Undefined
            /\ \/ /\ Len(reads'.kwargs) = 2
                  /\ queue' = queue
               \/ /\ Len(reads'.kwargs) = 3
                  /\ Len(queue') = Len(queue) + 1
                  /\ queue'[Len(queue')].type = "Telemetry"]_vars

C16_Witness ==
    /\ reads.kwargs # <<>> /\ reads.before = 50 /\ reads.kwargs[1] = 100
    /\ download.state = "IN_PROGRESS"

\* a step that leaves the queue as it is or puts one item at its tail
Appends ==
    \/ queue' = queue
    \/ /\ Len(queue') = Len(queue) + 1
       /\ SubSeq(queue', 1, Len(queue)) = queue

\* C21 as stated: every step that makes an HTTP request is a step of the
\* thread that runs loop(), and every step of another thread leaves the
\* queue as it is or appends to it.
C21_Original ==
    [][/\ last'.http => LoopStep
       /\ ~LoopStep => Appends]_vars

\* C21: only the thread that runs loop() takes items from the queue; the
\* other threads leave the queue as it is or append one item; the HTTP
\* requests made outside loop() are those of register(), made with a
\* server set, and the Register item is appended after the answer.
C21_Theorem ==
    [][/\ ~LoopStep => Appends
       /\ (last'.http /\ ~LoopStep) => (RegisterStep /\ Truthy(server))
       /\ (RegisterStep /\ queue' # queue) =>
            (last'.http /\ Answer.status_code = 200)]_vars

C21_Witness ==
    /\ last.op = "register()" /\ last.http /\ last.exc = "none"
    /\ running_loop /\ pc = "loop"
    /\ Len(queue) = 2 /\ queue[2].type = "Register"

\* event_cb or telemetry() is called with a token: the calls of
\* is_initialised() outside loop()
ProducerStep == ~LoopStep /\ last'.op = "none" /\ queue' # queue

\* C22 as stated: is_initialised() is true exactly when sn, fingerprint and
\* type have all been set; a call that finds it false clears the API flag.
C22_Original ==
    [][ProducerStep =>
        IF sn # None /\ fingerprint # None /\ type # None
        THEN errors' = errors
        ELSE errors' = [errors EXCEPT !.API = FALSE]]_vars

\* C22: is_initialised() is true exactly when sn and fingerprint are
\* non-empty and type is set; a call that finds it false clears the API
\* flag and changes nothing else.
C22_Theorem ==
    [][/\ is_initialised <=>
            (sn \notin {None, ""} /\ fingerprint \notin {None, ""}
             /\ type # None)
       /\ ProducerStep =>
            IF sn \notin {None, ""} /\ fingerprint \notin {None, ""}
               /\ type # None
            THEN errors' = errors
            ELSE errors' = [errors EXCEPT !.API = FALSE]]_vars

C22_Witness ==
    /\ sn = "" /\ fingerprint = "FP" /\ type = "I3"
    /\ last.op = "none" /\ Len(queue) = 1 /\ queue[1].type = "Event"
    /\ ~errors.API

\* C23: the answer to an event POST is not parsed: whatever it carries, the
\* step takes the event from the queue and changes the health flags by the
\* status only; no command is accepted, no handler is entered, nothing is
\* queued.  A handler is entered for the answer to a telemetry item only.
C23_Theorem ==
    [][/\ last'.op = "event" =>
            /\ queue' = Tail(queue)
            /\ command' = command
            /\ invoked' = invoked
            /\ pc' = pc
            /\ errors' = update_flags(errors, Answer.status_code)
       /\ Accepts => last'.item = "Telemetry"]_vars

C23_Witness ==
    /\ last.op = "event" /\ last.res.status_code = 200
    /\ last.res.command_id = 1 /\ last.res.body = "SEND_INFO"
    /\ sn = "SN" /\ fingerprint = "FP" /\ type = "I3"
    /\ command = NoCommand /\ queue = <<>> /\ pc = "loop"

\* C24: with a server and no token, an Event or Telemetry item the loop
\* takes from the queue is dropped: no HTTP call, nothing put back, no change
\* of a health flag, of the token or of the command; and while no token is
\* set no call of the application other than register() changes the queue.
C24_Theorem ==
    [][/\ (pc = "loop" /\ Truthy(server) /\ ~Truthy(token) /\ LoopStep
           /\ queue # <<>>
           /\ Head(queue).type \in {"Event", "Telemetry"}) =>
            /\ last'.op = "notoken"
            /\ ~last'.http
            /\ queue' = Tail(queue)
            /\ UNCHANGED <<errors, token, command, invoked, pc, now>>
       /\ (~Truthy(token) /\ ~LoopStep /\ ~RegisterStep) =>
            queue' = queue]_vars

C24_Witness ==
    /\ Truthy(server) /\ token = "" /\ last.op = "notoken"
    /\ last.item = "Telemetry" /\ queue = <<>>

\* C25: once stop_loop() has been called, whenever that was, loop() returns
\* in the end; and the thread that finds the flag false at the while starts
\* no other iteration.
C25_Claim ==
    /\ stop_called ~> (pc = "done")
    /\ [][(pc = "loop" /\ ~running_loop) => ~LoopStep]_vars

\* C26: the queue is first in, first out.  A step of loop() that takes an
\* item takes the first one, the request it makes is for that item, and what
\* the step puts on the queue (the events of a parsed answer, the Register
\* item of a pending poll) comes behind every item already queued; every
\* other step leaves the queue as it is or puts one item at its tail.
C26_Theorem ==
    [][IF LoopStep /\ last'.op \notin {"empty", "handled"}
       THEN /\ queue # <<>>
            /\ last'.item = Head(queue).type
            /\ last'.timeout = Head(queue).timeout
            /\ Len(queue') >= Len(queue) - 1
            /\ SubSeq(queue', 1, Len(queue) - 1) = Tail(queue)
       ELSE Appends]_vars

C26_Witness ==
    /\ last.op = "register" /\ last.res.status_code = 202
    /\ Len(queue) = 2 /\ queue[1].type = "Event"
    /\ queue[2].type = "Register"

\* C27: a request carries the Clock-Adjusted marker exactly when a jump has
\* been detected since the last request that carried it, and the marker of
\* a jump is cleared only by a step whose request, carrying the marker, has
\* been sent to the server: not by one whose connection failed.
C27_Claim ==
    [][/\ Requests(last'.op, last'.http) => (last'.marker <=> clock_adjusted)
       /\ (clock_adjusted /\ ~clock_adjusted') =>
            /\ last'.marker
            /\ last'.exc # "ConnectionError"]_vars

\* a Register item is queued
Polling == Count({"Register"}) > 0

Takes == LoopStep /\ last'.op \notin {"empty", "handled"}

\* the step leaves the item it took as the last item of the queue
PutBack ==
    /\ Len(queue') = Len(queue)
    /\ queue'[Len(queue')] = Head(queue)

\* C29: an item whose request fails is removed and nothing is queued in its
\* place, the failing step makes the one request of the item, and a step of
\* the loop leaves the item it took in the queue only when the item is a
\* Register item answered 202 before its deadline.
C29_Theorem ==
    [][/\ last'.op = "failed" =>
            /\ queue' = Tail(queue)
            /\ last'.http /\ last'.exc \in Exceptions
       /\ (Takes /\ PutBack) =>
            /\ last'.op = "register" /\ Head(queue).type = "Register"
            /\ Answer.status_code = 202
            /\ Head(queue).timeout > now]_vars

C29_Witness ==
    /\ last.op = "failed" /\ last.exc = "RequestException"
    /\ last.item = "Event" /\ queue = <<>>
    /\ running_loop /\ ~errors.HTTP

====
